---- MODULE Spec2Model ----
(***************************************************************************)
(* A model of the two generators of the repository:                        *)
(*   - ChaosGame (src/ChaosGame.py): the chaos-game iterator with its five *)
(*     vertex-selection rules r0..r4;                                      *)
(*   - HilbertCurve and Dithering (src/SpaceFillingCurves.py): the Hilbert *)
(*     index-to-coordinate mapping, the point table built from it and the  *)
(*     error-diffusion ditherer that walks the table.                      *)
(*                                                                         *)
(* Coordinates of the chaos game are rationals.  Polygon vertices are      *)
(* rounded to two decimals by the code, so they are kept in hundredths.    *)
(* A visited point is a record [x, y, d] that stands for the pair          *)
(*   ( x / (100 * rd^d) , y / (100 * rd^d) ),   ratio = rn / rd,           *)
(* d being the number of midpoint steps that led to it.                    *)
(***************************************************************************)
EXTENDS Integers, Sequences, FiniteSets, TLC

VARIABLES
    \* ---- ChaosGame: object fields
    pc,            \* "off" | "new" | "failed" | "idle" | "for" | "while"
    rule,          \* self.rule
    ratio,         \* self.ratio, a pair <<rn, rd>>
    vertices,      \* self.vertices, in hundredths
    shape,         \* self.shape
    start,         \* self.start
    points,        \* self.points
    \* ---- ChaosGame: locals of the running _rN_play call
    iterations,    \* iterations of the for loop still to run
    clockwise,     \* parameter of _r2_play
    new_point,     \* new_point
    random_index,  \* random_index
    prev_index,    \* prev_index of _r1_play / _r2_play
    prev,          \* prev of _r4_play, a pair <<prev[-2], prev[-1]>>
    \* ---- ChaosGame: instrumentation (not read by the program)
    chosen,        \* every vertex index chosen so far, in order
    callStart,     \* Len(chosen) when the running / last play call began
    requested,     \* sum of the iteration counts passed to play so far
    point_a,       \* first argument of the last _get_mid_point call
    resampled,     \* a candidate was rejected in the current iteration
    \* ---- HilbertCurve / Dithering
    hpc,           \* "off" | "init" | "build" | "dither" | "done"
    image,         \* image[y][x], grey levels in 256ths (1.0 is 256)
    N,             \* self.N
    hpoints,       \* self.points of the curve
    hindex,        \* i of the loop of HilbertCurve.__init__
    e,             \* running error of Dithering.dithering, in 256ths
    hk,            \* position in hilbert_points of the dithering loop
    visits         \* instrumentation: how often each cell was quantized

chaosVars == <<pc, rule, ratio, vertices, shape, start, points, iterations,
               clockwise, new_point, random_index, prev_index, prev, chosen,
               callStart, requested, point_a, resampled>>
curveVars == <<hpc, image, N, hpoints, hindex, e, hk, visits>>
vars == <<chaosVars, curveVars>>

----------------------------------------------------------------------------
(* Bounds of the model *)

MaxShape == 4      \* shapes 0..MaxShape are tried
MaxTotal == 3      \* total number of iterations requested over all calls
MaxOrder == 3      \* orders 1..MaxOrder of the Hilbert curve

ValidRules == {"r0", "r1", "r2", "r3", "r4"}
Rules      == ValidRules \cup {"r5"}          \* "r5": an unrecognized rule
\* the <<ratio, start sample>> pairs tried: ratio 1/2 is the default, the
\* start sample is in hundredths, in [-0.5, 0.5)
Settings   == {<< <<1, 2>>, 20 >>, << <<3, 4>>, -50 >>}

NoPoint == [x |-> 0, y |-> 0, d |-> 0]

----------------------------------------------------------------------------
(* ChaosGame helpers *)

\* round(100 * cos(k * 2*pi / n), 0) and the same for sin, as math.cos and
\* math.sin followed by round(_, 2) give them
Cos100(n, k) ==
    CASE n = 1 -> <<100>>[k + 1]
      [] n = 2 -> <<100, -100>>[k + 1]
      [] n = 3 -> <<100, -50, -50>>[k + 1]
      [] n = 4 -> <<100, 0, -100, 0>>[k + 1]
      [] n = 5 -> <<100, 31, -81, -81, 31>>[k + 1]
      [] n = 6 -> <<100, 50, -50, -100, -50, 50>>[k + 1]

Sin100(n, k) ==
    CASE n = 1 -> <<0>>[k + 1]
      [] n = 2 -> <<0, 0>>[k + 1]
      [] n = 3 -> <<0, 87, -87>>[k + 1]
      [] n = 4 -> <<0, 100, 0, -100>>[k + 1]
      [] n = 5 -> <<0, 95, 59, -59, -95>>[k + 1]
      [] n = 6 -> <<0, 87, 87, 0, -87, -87>>[k + 1]

\* _generate_polygon: vertex 0 is (x0, y0) = (0, 1); vertex k is
\* (x0*cos - y0*sin, y0*cos - x0*sin).  Sequence index k+1 holds vertex k.
generate_polygon(no_of_vertices) ==
    LET x0 == 0
        y0 == 1
    IN  [v \in 1..no_of_vertices |->
            IF v = 1 THEN <<100 * x0, 100 * y0>>
            ELSE <<x0 * Cos100(no_of_vertices, v - 1)
                     - y0 * Sin100(no_of_vertices, v - 1),
                   y0 * Cos100(no_of_vertices, v - 1)
                     - x0 * Sin100(no_of_vertices, v - 1)>>]

\* _get_mid_point: ((a.x + b.x) * ratio, (a.y + b.y) * ratio)
get_mid_point(a, b) ==
    LET rn == ratio[1]
        rd == ratio[2]
    IN  [x |-> (a.x + b[1] * rd ^ a.d) * rn,
         y |-> (a.y + b[2] * rd ^ a.d) * rn,
         d |-> a.d + 1]

\* _random_start_point: x = y = one sample s
random_start_point(s) == [x |-> s, y |-> s, d |-> 0]

\* equality of the rationals two point records stand for
PointEq(p, q) ==
    /\ p.x * ratio[2] ^ q.d = q.x * ratio[2] ^ p.d
    /\ p.y * ratio[2] ^ q.d = q.y * ratio[2] ^ p.d

\* A faulty variant of AppendPoint: the list is replaced by the new point.
AppendPoint_overwrite(ps, p) == <<p>>

\* self.points.append(new_point)
AppendPoint(ps, p) == Append(ps, p)

\* A faulty variant of Rejected: _r2_play ignores its clockwise parameter and
\* always excludes the clockwise neighbour.
Rejected_sameNeighbour(idx) ==
    CASE rule = "r1" -> idx = prev_index
      [] rule \in {"r2", "r3"} -> idx = (prev_index + 1) % shape
      [] rule = "r4" ->
            /\ prev[2] = prev[1]
            /\ \/ idx = (prev[2] - 1) % shape
               \/ idx = (prev[2] + 1) % shape
      [] OTHER -> FALSE

\* A faulty variant of Rejected: after two equal indices _r4_play excludes
\* the repeated vertex as well as its two neighbours.
Rejected_alsoSelf(idx) ==
    CASE rule = "r1" -> idx = prev_index
      [] rule \in {"r2", "r3"} ->
            IF clockwise THEN idx = (prev_index + 1) % shape
            ELSE idx = (prev_index - 1) % shape
      [] rule = "r4" ->
            /\ prev[2] = prev[1]
            /\ \/ idx = (prev[2] - 1) % shape
               \/ idx = (prev[2] + 1) % shape
               \/ idx = prev[2]
      [] OTHER -> FALSE

\* The condition of the rejection loop of the running _rN_play for candidate
\* idx.  Python's % yields a result in [0, shape) for a negative left operand,
\* as % of Integers does.
Rejected(idx) ==
    CASE rule = "r1" -> idx = prev_index
      [] rule \in {"r2", "r3"} ->
            IF clockwise THEN idx = (prev_index + 1) % shape
            ELSE idx = (prev_index - 1) % shape
      [] rule = "r4" ->
            /\ prev[2] = prev[1]
            /\ \/ idx = (prev[2] - 1) % shape
               \/ idx = (prev[2] + 1) % shape
      [] OTHER -> FALSE

----------------------------------------------------------------------------
(* ChaosGame actions *)

ChaosOff ==
    /\ pc = "off" /\ rule = "r0" /\ ratio = <<1, 2>> /\ vertices = <<>>
    /\ shape = 0 /\ start = NoPoint /\ points = <<>> /\ iterations = 0
    /\ clockwise = FALSE /\ new_point = NoPoint /\ random_index = 0
    /\ prev_index = 0 /\ prev = <<0, 0>> /\ chosen = <<>> /\ callStart = 0
    /\ requested = 0 /\ point_a = NoPoint /\ resampled = FALSE

CurveOff ==
    /\ hpc = "off" /\ image = <<>> /\ N = 0 /\ hpoints = <<>> /\ hindex = 0
    /\ e = 0 /\ hk = 0 /\ visits = <<>>

Init ==
    /\ CurveOff
    /\ pc = "new" /\ rule = "r0" /\ ratio = <<1, 2>> /\ vertices = <<>>
    /\ shape = 0 /\ start = NoPoint /\ points = <<>> /\ iterations = 0
    /\ clockwise = FALSE /\ new_point = NoPoint /\ random_index = 0
    /\ prev_index = 0 /\ prev = <<0, 0>> /\ chosen = <<>> /\ callStart = 0
    /\ requested = 0 /\ point_a = NoPoint /\ resampled = FALSE

\* ChaosGame.__init__(shape=sh, rule=r, ratio=q), the random start sample
\* being s.  2 * pi / 0 raises ZeroDivisionError in _generate_polygon; no
\* other argument is checked.
Construct(sh, r, q, s) ==
    /\ pc = "new"
    /\ IF sh = 0
       THEN /\ pc' = "failed"
            /\ UNCHANGED <<rule, ratio, vertices, shape, start, points>>
       ELSE /\ pc' = "idle"
            /\ rule' = r
            /\ ratio' = q
            /\ vertices' = generate_polygon(sh)
            /\ shape' = sh
            /\ start' = random_start_point(s)
            /\ points' = <<>>
    /\ UNCHANGED <<iterations, clockwise, new_point, random_index, prev_index,
                   prev, chosen, callStart, requested, point_a, resampled>>
    /\ UNCHANGED curveVars

\* entry of _r0_play(k): new_point = self.start
r0_play(k) ==
    /\ new_point' = start
    /\ iterations' = k
    /\ pc' = IF k > 0 THEN "for" ELSE "idle"
    /\ UNCHANGED <<clockwise, random_index, prev_index, prev>>

\* entry of _r1_play(k): new_point = self.start; one index is drawn and
\* prev_index is set to -2
r1_play(k) ==
    /\ new_point' = start
    /\ random_index' \in 0..(shape - 1)
    /\ prev_index' = -2
    /\ iterations' = k
    /\ pc' = IF k > 0 THEN "for" ELSE "idle"
    /\ UNCHANGED <<clockwise, prev>>

\* entry of _r2_play(k, clockwise=cw)
r2_play(k, cw) ==
    /\ new_point' = start
    /\ random_index' \in 0..(shape - 1)
    /\ prev_index' = -2
    /\ clockwise' = cw
    /\ iterations' = k
    /\ pc' = IF k > 0 THEN "for" ELSE "idle"
    /\ UNCHANGED prev

\* entry of _r4_play(k): new_point = self.start; prev = [-2, -1]
r4_play(k) ==
    /\ new_point' = start
    /\ prev' = <<-2, -1>>
    /\ iterations' = k
    /\ pc' = IF k > 0 THEN "for" ELSE "idle"
    /\ UNCHANGED <<clockwise, random_index, prev_index>>

\* play(k): dispatch on self.rule; an unrecognized rule falls through the
\* if/elif chain and nothing runs
Play(k) ==
    /\ pc = "idle"
    /\ requested + k <= MaxTotal
    /\ CASE rule = "r0" -> r0_play(k)
         [] rule = "r1" -> r1_play(k)
         [] rule = "r2" -> r2_play(k, FALSE)
         [] rule = "r3" -> r2_play(k, TRUE)
         [] rule = "r4" -> r4_play(k)
         [] OTHER -> UNCHANGED <<pc, iterations, clockwise, new_point,
                                 random_index, prev_index, prev>>
    /\ requested' = requested + k
    /\ callStart' = Len(chosen)
    /\ resampled' = FALSE
    /\ UNCHANGED <<rule, ratio, vertices, shape, start, points, chosen,
                   point_a>>
    /\ UNCHANGED curveVars

\* first line of the loop body: random_index = randint(0, self.shape - 1)
Draw ==
    /\ pc = "for"
    /\ random_index' \in 0..(shape - 1)
    /\ resampled' = FALSE
    /\ pc' = "while"
    /\ UNCHANGED <<rule, ratio, vertices, shape, start, points, iterations,
                   clockwise, new_point, prev_index, prev, chosen, callStart,
                   requested, point_a>>
    /\ UNCHANGED curveVars

\* body of the rejection loop: the candidate is rejected and drawn again
\* from the full range
Resample ==
    /\ pc = "while"
    /\ Rejected(random_index)
    /\ random_index' \in 0..(shape - 1)
    /\ resampled' = TRUE
    /\ UNCHANGED <<pc, rule, ratio, vertices, shape, start, points,
                   iterations, clockwise, new_point, prev_index, prev, chosen,
                   callStart, requested, point_a>>
    /\ UNCHANGED curveVars

\* rest of the loop body: the candidate is accepted, the midpoint becomes
\* new_point and is appended, the history is updated
Step ==
    /\ pc = "while"
    /\ ~Rejected(random_index)
    /\ LET bound_point == vertices[random_index + 1]
           mid == get_mid_point(new_point, bound_point)
       IN  /\ new_point' = mid
           /\ points' = AppendPoint(points, mid)
    /\ point_a' = new_point
    /\ prev_index' = IF rule \in {"r1", "r2", "r3"} THEN random_index
                     ELSE prev_index
    /\ prev' = IF rule = "r4" THEN <<prev[2], random_index>> ELSE prev
    /\ chosen' = Append(chosen, random_index)
    /\ iterations' = iterations - 1
    /\ pc' = IF iterations > 1 THEN "for" ELSE "idle"
    /\ UNCHANGED <<rule, ratio, vertices, shape, start, clockwise,
                   random_index, callStart, requested, resampled>>
    /\ UNCHANGED curveVars

Next ==
    \/ \E sh \in 0..MaxShape, r \in Rules, qs \in Settings :
          Construct(sh, r, qs[1], qs[2])
    \/ \E k \in 0..MaxTotal : Play(k)
    \/ Draw
    \/ Resample
    \/ Step

Spec == Init /\ [][Next]_vars

----------------------------------------------------------------------------
(* HilbertCurve and Dithering *)

Sides    == {2 ^ o : o \in 1..MaxOrder}       \* image.shape[0]
Patterns == {"flat", "ramp", "checker"}       \* the input images tried

\* The grey level of cell (y, x) of input image pat, in 256ths: the image
\* holds the float k / 256 where the model holds k (flat is 0.3125, checker
\* alternates 0.8125 and 0.4375, ramp rises from 0 in steps of 1 / side^2).
\* Multiples of 1/256 of this size, their sums and their differences are
\* exact in float32 and in float64, so the comparisons and the updates of e
\* in Dithering.dithering round nothing on these images and the integer
\* arithmetic below is the arithmetic of the code.
Grey(pat, side, y, x) ==
    CASE pat = "flat" -> 80
      [] pat = "ramp" -> ((y * side + x) * 256) \div (side * side)
      [] pat = "checker" -> IF (x + y) % 2 = 0 THEN 208 ELSE 112

Cells(side) == (0..(side - 1)) \X (0..(side - 1))

\* int(log2(s))
RECURSIVE log2(_)
log2(s) == IF s <= 1 THEN 0 ELSE 1 + log2(s \div 2)

\* _bit_mask: x & 3
bit_mask(x) == x % 4

\* A faulty variant of Transform: digit 3 reflects inside the lower-left
\* sub-square instead of moving to the lower-right one.
Transform_plainReflect(i, x, y, n2) ==
    CASE i = 0 -> <<y, x>>
      [] i = 1 -> <<x, y + n2>>
      [] i = 2 -> <<x + n2, y + n2>>
      [] i = 3 -> <<(n2 - 1) - y, (n2 - 1) - x>>

\* the if/elif chain of the loop of _hilbert_curve_x2xy
Transform(i, x, y, n2) ==
    CASE i = 0 -> <<y, x>>
      [] i = 1 -> <<x, y + n2>>
      [] i = 2 -> <<x + n2, y + n2>>
      [] i = 3 -> <<(2 * n2 - 1) - y, (n2 - 1) - x>>

\* the while loop of _hilbert_curve_x2xy: n doubles from 4 while n <= self.N,
\* index loses two bits per round
RECURSIVE x2xy_loop(_, _, _, _)
x2xy_loop(x, y, index, n) ==
    IF n <= N
    THEN LET t == Transform(bit_mask(index), x, y, n \div 2)
         IN  x2xy_loop(t[1], t[2], index \div 4, n * 2)
    ELSE <<x, y>>

\* _hilbert_curve_x2xy
hilbert_curve_x2xy(index) ==
    LET positions == << <<0, 0>>, <<0, 1>>, <<1, 1>>, <<1, 0>> >>
        tmp == positions[bit_mask(index) + 1]
    IN  x2xy_loop(tmp[1], tmp[2], index \div 4, 4)

InitCurve ==
    /\ ChaosOff
    /\ hpc = "init"
    /\ \E side \in Sides, pat \in Patterns :
          image = [c \in Cells(side) |-> Grey(pat, side, c[1], c[2])]
    /\ N = 0 /\ hpoints = <<>> /\ hindex = 0 /\ e = 0 /\ hk = 0
    /\ visits = <<>>

\* the number of rows of the image
Rows(img) == Cardinality({c[1] : c \in DOMAIN img})

\* Dithering.__init__ up to the call of Curve(order), and the first two
\* statements of HilbertCurve.__init__
DitheringInit ==
    /\ hpc = "init"
    /\ LET order == log2(Rows(image))
       IN  N' = 2 ^ order
    /\ hpoints' = << <<0, 0>> >>
    /\ hindex' = 0
    /\ visits' = [c \in DOMAIN image |-> 0]
    /\ hpc' = "build"
    /\ UNCHANGED <<image, e, hk>>
    /\ UNCHANGED chaosVars

\* one round of the loop of HilbertCurve.__init__
HilbertAppend ==
    /\ hpc = "build"
    /\ hindex < N * N
    /\ hpoints' = Append(hpoints, hilbert_curve_x2xy(hindex))
    /\ hindex' = hindex + 1
    /\ UNCHANGED <<hpc, image, N, e, hk, visits>>
    /\ UNCHANGED chaosVars

\* Dithering.dithering, up to the loop: the cell of hilbert_points[0]
DitherFirst ==
    /\ hpc = "build"
    /\ hindex = N * N
    /\ LET x_0 == hpoints[1][1]
           y_0 == hpoints[1][2]
           i_0 == image[<<y_0, x_0>>]
           o_0 == IF i_0 <= 128 THEN 0 ELSE 1         \* i_0 <= 0.5
       IN  /\ e' = i_0 - 256 * o_0
           /\ image' = [image EXCEPT ![<<y_0, x_0>>] = 256 * o_0]
           /\ visits' = [visits EXCEPT ![<<y_0, x_0>>] = @ + 1]
    /\ hk' = 2
    /\ hpc' = "dither"
    /\ UNCHANGED <<N, hpoints, hindex>>
    /\ UNCHANGED chaosVars

\* one round of the loop of Dithering.dithering over hilbert_points[1:]
DitherStep ==
    /\ hpc = "dither"
    /\ hk <= Len(hpoints)
    /\ LET x == hpoints[hk][1]
           y == hpoints[hk][2]
           i == image[<<y, x>>]
           o == IF i + e <= 128 THEN 0 ELSE 1         \* i + e <= 0.5
       IN  /\ e' = e + i - 256 * o
           /\ image' = [image EXCEPT ![<<y, x>>] = 256 * o]
           /\ visits' = [visits EXCEPT ![<<y, x>>] = @ + 1]
    /\ hk' = hk + 1
    /\ hpc' = IF hk = Len(hpoints) THEN "done" ELSE "dither"
    /\ UNCHANGED <<N, hpoints, hindex>>
    /\ UNCHANGED chaosVars

NextCurve ==
    \/ DitheringInit
    \/ HilbertAppend
    \/ DitherFirst
    \/ DitherStep

SpecCurve == InitCurve /\ [][NextCurve]_vars

----------------------------------------------------------------------------
(* Fairness: randint draws uniformly from the full range, so a loop that   *)
(* keeps drawing does not avoid an acceptable index for ever; the          *)
(* interpreter always runs the next statement.                             *)

ResampleAccepted == Resample /\ (~Rejected(random_index))'

FairSpec ==
    /\ Spec
    /\ WF_vars(Draw)
    /\ WF_vars(Step)
    /\ WF_vars(ResampleAccepted)

----------------------------------------------------------------------------
(* Properties of ChaosGame *)

Running == pc \in {"for", "while"}

\* the indices chosen by the running (or last) play call
CallChosen == SubSeq(chosen, callStart + 1, Len(chosen))

\* C1, first part: with a rule r0..r4 the length of self.points is the number
\* of iterations executed so far, i.e. the iterations requested of all play
\* calls minus those the running call has still to run (k + j once play(k)
\* and play(j) have returned).
C1_LengthIsIterations ==
    rule \in ValidRules => Len(points) = requested - iterations

\* C1, second part: no step removes or changes an entry of self.points.
C1_PrefixKept ==
    /\ Len(points') >= Len(points)
    /\ SubSeq(points', 1, Len(points)) = points

\* C1: play(k) then play(j) leaves k + j entries in visited_points, the
\* first k of them unchanged; the length of visited_points is always the
\* number of iterations executed so far.
C1_PlayAppends == [] C1_LengthIsIterations /\ [][C1_PrefixKept]_vars

\* two play calls have returned, each having run at least one iteration
C1_Witness ==
    /\ pc = "idle" /\ rule \in ValidRules
    /\ callStart >= 1 /\ Len(points) > callStart

\* C2: under rule r1 no two consecutive indices of the whole history of
\* chosen indices (all iterations of all play calls) are equal.
C2_NoConsecutiveRepeat ==
    (rule = "r1" /\ shape >= 3) =>
        \A i \in 1..(Len(chosen) - 1) : chosen[i] # chosen[i + 1]

\* C3: under rule r4 with shape >= 3, when the two most recently chosen
\* indices are equal (p) the next chosen index is neither (p+1) mod shape nor
\* (p-1) mod shape; when they differ, or fewer than two were chosen, no
\* candidate index is rejected.
C3_ConditionalExclusion ==
    (rule = "r4" /\ shape >= 3) =>
        /\ \A i \in 3..Len(chosen) :
              chosen[i - 2] = chosen[i - 1] =>
                 /\ chosen[i] # (chosen[i - 1] + 1) % shape
                 /\ chosen[i] # (chosen[i - 1] + shape - 1) % shape
        /\ (/\ pc = "while"
            /\ \/ Len(chosen) < 2
               \/ chosen[Len(chosen)] # chosen[Len(chosen) - 1])
           => ~Rejected(random_index)

\* C6: an engine exists (play can be called or is running) only for
\* shape >= 3 and a rule among r0..r4; any other configuration fails at
\* construction.
C6_InvalidConfigurationFails ==
    pc \in {"idle", "for", "while"} => (shape >= 3 /\ rule \in ValidRules)

\* C7: within one play call with shape >= 3 every chosen index lies in
\* [0, shape); under r2 an index is never the anti-clockwise neighbour
\* (p + shape - 1) mod shape of its predecessor p, under r3 never the
\* clockwise neighbour (p + 1) mod shape.
C7_NeighbourExcluded ==
    shape >= 3 =>
        /\ \A i \in 1..Len(CallChosen) : CallChosen[i] \in 0..(shape - 1)
        /\ \A i \in 1..(Len(CallChosen) - 1) :
              /\ rule = "r2" =>
                   CallChosen[i + 1] # (CallChosen[i] + shape - 1) % shape
              /\ rule = "r3" =>
                   CallChosen[i + 1] # (CallChosen[i] + 1) % shape

\* under r2 (and under r3) a second index of a call was chosen after a
\* candidate had been rejected
C7_Witness ==
    /\ shape >= 3 /\ rule \in {"r2", "r3"} /\ Len(CallChosen) >= 2
    /\ resampled /\ pc \in {"idle", "for"}

\* C8: for the rules r1..r4 and shape >= 3 no candidate is rejected in the
\* first iteration of a play call, when the history holds the sentinels.
C8_FirstIterationUnconstrained ==
    (/\ pc = "while" /\ Len(chosen) = callStart
     /\ rule \in {"r1", "r2", "r3", "r4"} /\ shape >= 3)
    => ~Rejected(random_index)

\* C9: in every iteration but the first of the engine's life the point
\* combined with the chosen vertex is the last entry of visited_points (the
\* entry before the one the iteration appended).
C9_CurrentPointCarriesOver ==
    (rule \in ValidRules /\ shape >= 3 /\ Len(chosen) >= 2 /\ Len(points) >= 2)
    => PointEq(point_a, points[Len(points) - 1])

\* C10, the acceptable index: with shape >= 3 some index of [0, shape) is
\* not rejected, whatever the history.
C10_SomeIndexAccepted ==
    (shape >= 3 /\ Running) => \E idx \in 0..(shape - 1) : ~Rejected(idx)

\* C10: for r0..r4 and shape >= 3 some index always satisfies the rule's
\* constraint, so under fair resampling every running play call returns.
C10_PlayCompletes ==
    /\ [] C10_SomeIndexAccepted
    /\ (shape >= 3 /\ Running) ~> (pc = "idle")

\* a play call under r4 returned after its last iteration had rejected a
\* candidate
C10_Witness ==
    /\ shape >= 3 /\ rule = "r4" /\ pc = "idle" /\ resampled
    /\ Len(CallChosen) >= 3

----------------------------------------------------------------------------
(* Properties of HilbertCurve and Dithering *)

\* the coordinates computed so far for the indices 0, 1, ...
Mapped == {hpoints[j] : j \in 2..Len(hpoints)}

\* C4: for N = 2^order the mapping takes the indices 0..N*N-1 to N*N
\* pairwise distinct pairs (x, y) with 0 <= x, y < N: a bijection onto the
\* grid.
C4_HilbertBijection ==
    hpc \in {"build", "dither", "done"} =>
        /\ Cardinality(Mapped) = Len(hpoints) - 1
        /\ Mapped \subseteq Cells(N)
        /\ hindex = N * N => Mapped = Cells(N)

\* all indices of a curve of order >= 2 have been mapped
C4_Witness == hpc = "build" /\ N >= 4 /\ hindex = N * N

\* C5: the point table enumerates every cell of the grid exactly once, so
\* the ditherer quantizes every cell exactly once.
C5_TableEnumeratesCellsOnce ==
    hpc = "done" =>
        /\ \A c \in Cells(N) :
              Cardinality({j \in 1..Len(hpoints) : hpoints[j] = c}) = 1
        /\ \A c \in DOMAIN visits : visits[c] = 1

====
